---- MODULE Spec2Model ----
(***************************************************************************)
(* Model of the S3 uploader: the storage client wrapper                    *)
(* (src/file_uploader.py, class S3FileUploader) and the command-line       *)
(* orchestrator (src/main.py).                                             *)
(*                                                                         *)
(* Strings that the code inspects character by character (glob patterns,   *)
(* file names, prefixes, keys) are sequences of one-character strings.     *)
(* A path is a sequence of names; <<>> is the root of the modelled tree.   *)
(***************************************************************************)
EXTENDS Integers, Sequences, FiniteSets, TLC

VARIABLES
    tree,             \* the local file system: sequence of entries in walk order
    sep,              \* os.sep used by str(Path): "/" (POSIX) or "\\" (Windows)
    transfer_config,  \* self.transfer_config, handed to every SDK upload as Config
    wpc,              \* wrapper position: "idle" or "loop" (inside upload_directory's for)
    call,             \* arguments of the current / last public-method invocation
    result,           \* outcome of the last completed public method
    sdk_calls,        \* SDK (network) calls made during the current invocation
    sdk_outcome,      \* how the most recent SDK call ended
    sdk_response,     \* "Contents" of the last list_objects_v2 response (<<>>: key absent)
    console,          \* messages printed by the most recent wrapper-level step
    files_to_upload,  \* upload_directory: the filtered list
    attempts,         \* upload_directory: upload_file calls made so far, in order
    successful,       \* upload_directory: counter
    failed,           \* upload_directory: counter
    mpc,              \* orchestrator position (main.py); "Library" when the wrapper is used directly
    exit_status,      \* process exit status, -1 while the process runs
    exit_reason,      \* why the process ended
    menu_shown,       \* show_menu has displayed the menu at least once
    connected,        \* create_uploader saw bucket_exists() return True
    action,           \* the menu choice being carried out ("none" before the first)
    answer,           \* the reply to "Perform another operation?" ("none" until asked)
    picker            \* how BasicFileOpenApp().run() ended for the current action

wvars == <<tree, sep, transfer_config, wpc, call, result, sdk_calls, sdk_outcome, sdk_response, console,
           files_to_upload, attempts, successful, failed>>

mvars == <<mpc, exit_status, exit_reason, menu_shown, connected, action, answer, picker>>

vars == <<wvars, mvars>>

----------------------------------------------------------------------------
(* Bounds *)

MaxInclude == 2     \* longest include_patterns list
MaxExclude == 1     \* longest exclude_patterns list
MaxItems == 2       \* largest max_items passed to list_bucket_contents

----------------------------------------------------------------------------
(* Input universes *)

NameA == <<"a", ".", "t">>          \* a.txt
NameB == <<"b", ".", "p">>          \* b.png
NameC == <<"c", ".", "t">>          \* c.txt
NameS == <<"s">>                    \* a sub-directory
NameW == <<"w", "\\", "a">>         \* a POSIX file name that contains a backslash
NameZ == <<"z">>                    \* never present

File(p) == [path |-> p, kind |-> "file"]
Dir(p)  == [path |-> p, kind |-> "dir"]

\* (tree, os.sep) pairs
Worlds ==
    { << <<File(<<NameA>>), File(<<NameB>>), File(<<NameC>>)>>, "/" >>,
      << <<File(<<NameC>>), Dir(<<NameS>>), File(<<NameS, NameA>>)>>, "/" >>,
      << <<Dir(<<NameS>>), File(<<NameS, NameA>>), File(<<NameA>>)>>, "\\" >>,
      << <<File(<<NameW>>), Dir(<<NameS>>)>>, "/" >> }

Patterns == { <<"*", ".", "t">>, <<"*">>, <<"s">> }

Prefixes == { <<>>, <<"m">>, <<"/", "m", "\\">> }

Keys == { <<"k">> }

\* Optional[...] arguments: None is the empty sequence, a value v is <<v>>
None == <<>>
Some(v) == <<v>>

SeqsUpTo(S, n) == UNION { [1..k -> S] : k \in 0..n }

\* How an SDK call can end: it returns, or raises botocore's ClientError (with
\* the service's error code), botocore's NoCredentialsError, or any other
\* Exception (EndpointConnectionError, S3UploadFailedError, OSError, ...).
SdkOutcomes == {"ok", "ClientError404", "ClientError403", "ClientError",
                "NoCredentialsError", "Exception"}

UploadOutcomes == {"ok", "NoCredentialsError", "ClientError", "Exception"}

IsClientError(o) == o \in {"ClientError404", "ClientError403", "ClientError"}

\* What list_objects_v2 can hold for the bucket
BucketObjects == << [Key |-> <<"k">>, Size |-> 1],
                    [Key |-> <<"m", "/", "k">>, Size |-> 2],
                    [Key |-> <<"m", "/", "q">>, Size |-> 3] >>

----------------------------------------------------------------------------
(* String helpers *)

Last(s) == s[Len(s)]

Range(s) == { s[i] : i \in 1..Len(s) }

RECURSIVE LStrip(_)
LStrip(s) ==
    IF s # <<>> /\ Head(s) = "/" THEN LStrip(Tail(s)) ELSE s

Replace(s) == [i \in 1..Len(s) |-> IF s[i] = "\\" THEN "/" ELSE s[i]]

RECURSIVE Join(_, _)
Join(path, d) ==
    IF path = <<>> THEN <<>>
    ELSE IF Len(path) = 1 THEN Head(path)
    ELSE Head(path) \o <<d>> \o Join(Tail(path), d)

\* str(file_path.relative_to(directory_path))
RelativeTo(p, dir) == SubSeq(p, Len(dir) + 1, Len(p))

S3KeyNoReplace(prefix, rel, d) == LStrip(prefix \o <<"/">> \o Join(rel, d))

\* f"{s3_prefix}/{relative_path}".lstrip("/").replace("\\", "/")
S3Key(prefix, rel, d) == Replace(LStrip(prefix \o <<"/">> \o Join(rel, d)))

----------------------------------------------------------------------------
(* File system *)

RECURSIVE Match(_, _)
Match(p, s) ==
    IF p = <<>> THEN s = <<>>
    ELSE IF Head(p) = "*"
         THEN Match(Tail(p), s) \/ (s # <<>> /\ Match(p, Tail(s)))
         ELSE s # <<>> /\ Head(s) = Head(p) /\ Match(Tail(p), Tail(s))

Kind(p) ==
    IF p = <<>> THEN "dir"
    ELSE IF \E i \in 1..Len(tree) : tree[i].path = p
         THEN (CHOOSE e \in Range(tree) : e.path = p).kind
         ELSE "missing"

Under(dir, p) == Len(p) > Len(dir) /\ SubSeq(p, 1, Len(dir)) = dir

rglob(dir, pattern) ==
    SelectSeq(tree, LAMBDA e : Under(dir, e.path) /\ Match(pattern, Last(e.path)))

RECURSIVE Collect(_, _)
Collect(dir, inc) ==
    IF inc = <<>> THEN <<>>
    ELSE rglob(dir, Head(inc)) \o Collect(dir, Tail(inc))

RECURSIVE ApplyExcludes(_, _, _)
ApplyExcludes(dir, files, exc) ==
    IF exc = <<>> THEN files
    ELSE ApplyExcludes(dir,
             SelectSeq(files, LAMBDA f : f \notin Range(rglob(dir, Head(exc)))),
             Tail(exc))

FilesToUpload(dir, inc, exc) ==
    LET collected == IF inc # <<>> THEN Collect(dir, inc) ELSE rglob(dir, <<"*">>)
        regular   == SelectSeq(collected, LAMBDA f : f.kind = "file")
    IN  ApplyExcludes(dir, regular, exc)

----------------------------------------------------------------------------
(* S3FileUploader.bucket_exists *)

BucketExistsMessageSame(o) ==
    CASE o = "ok"                 -> "none"
      [] o = "ClientError404"     -> "does not exist"
      [] o = "ClientError403"     -> "does not exist"
      [] o = "ClientError"        -> "Error checking bucket"
      [] o = "NoCredentialsError" -> "AWS credentials not found"
      [] OTHER                    -> "none"

BucketExistsMessage(o) ==
    CASE o = "ok"                 -> "none"
      [] o = "ClientError404"     -> "does not exist"
      [] o = "ClientError403"     -> "Access denied"
      [] o = "ClientError"        -> "Error checking bucket"
      [] o = "NoCredentialsError" -> "AWS credentials not found"
      [] OTHER                    -> "none"

\* the try / except ClientError / except NoCredentialsError of bucket_exists
BucketExistsReturn(o) ==
    IF o = "ok" THEN [value |-> TRUE, raised |-> "none"]
    ELSE IF IsClientError(o) \/ o = "NoCredentialsError"
         THEN [value |-> FALSE, raised |-> "none"]
         ELSE [value |-> FALSE, raised |-> o]

NoArgs(m) == [method |-> m, path |-> <<>>, key |-> None, prefix |-> <<>>,
              include |-> <<>>, exclude |-> <<>>, max_items |-> 0]

SdkCall(api, path, key) == [api |-> api, path |-> path, key |-> key]

bucket_exists(o) ==
    /\ wpc = "idle"
    /\ call' = NoArgs("bucket_exists")
    /\ sdk_calls' = << SdkCall("head_bucket", <<>>, <<>>) >>
    /\ sdk_outcome' = o
    /\ sdk_response' = <<>>
    /\ console' = BucketExistsMessage(o)
    /\ result' = [method |-> "bucket_exists"] @@ BucketExistsReturn(o)
    /\ UNCHANGED <<tree, sep, transfer_config, wpc, files_to_upload, attempts, successful, failed>>

----------------------------------------------------------------------------
(* S3FileUploader.upload_file *)

ValidateNoIsFile(kind) ==
    IF kind = "missing" THEN "File not found" ELSE "ok"

\* the two early returns that precede any SDK call
Validate(kind) ==
    CASE kind = "missing" -> "File not found"
      [] kind = "dir"     -> "Path is not a file"
      [] OTHER            -> "ok"

UploadFileReturnNarrow(o) ==
    IF o = "Exception" THEN [value |-> FALSE, raised |-> o]
    ELSE [value |-> o = "ok", raised |-> "none"]

\* the try / except NoCredentialsError / except ClientError / except Exception
UploadFileReturn(o) == [value |-> o = "ok", raised |-> "none"]

UploadFileMessage(o) ==
    CASE o = "ok"                 -> "Upload successful"
      [] o = "NoCredentialsError" -> "AWS credentials not found"
      [] o = "ClientError"        -> "Upload failed"
      [] OTHER                    -> "Unexpected error"

\* One execution of upload_file(path, s3_key): what it returns, which SDK
\* calls it makes and what it prints, given how the SDK call (if made) ends.
UploadFileRun(path, s3_key, o) ==
    LET v == Validate(Kind(path))
        key == IF s3_key = None THEN Last(path) ELSE Head(s3_key)
    IN  IF v # "ok"
        THEN [value |-> FALSE, raised |-> "none", calls |-> <<>>,
              outcome |-> "none", msg |-> v]
        ELSE UploadFileReturn(o) @@
             [calls |-> << SdkCall("upload_file", path, key) >>,
              outcome |-> o, msg |-> UploadFileMessage(o)]

upload_file(path, s3_key, o) ==
    LET r == UploadFileRun(path, s3_key, o)
    IN  /\ wpc = "idle"
        /\ call' = [NoArgs("upload_file") EXCEPT !.path = path, !.key = s3_key]
        /\ sdk_calls' = r.calls
        /\ sdk_outcome' = r.outcome
        /\ sdk_response' = <<>>
        /\ console' = r.msg
        /\ result' = [method |-> "upload_file", value |-> r.value, raised |-> r.raised]
        /\ UNCHANGED <<tree, sep, transfer_config, wpc, files_to_upload, attempts, successful, failed>>

----------------------------------------------------------------------------
(* S3FileUploader.upload_directory *)

Pending == [method |-> "pending", value |-> FALSE, raised |-> "none"]

TallyDropFailed(s, f, ok) == IF ok THEN <<s + 1, f>> ELSE <<s, f>>

\* if self.upload_file(...): successful += 1  else: failed += 1
Tally(s, f, ok) == IF ok THEN <<s + 1, f>> ELSE <<s, f + 1>>

\* Entry of upload_directory up to the first iteration of its for loop.
upload_directory(dir, prefix, inc, exc) ==
    LET files == FilesToUpload(dir, inc, exc)
        early == Kind(dir) # "dir" \/ files = <<>>
    IN  /\ wpc = "idle"
        /\ call' = [NoArgs("upload_directory") EXCEPT !.path = dir,
                        !.prefix = prefix, !.include = inc, !.exclude = exc]
        /\ sdk_calls' = <<>>
        /\ sdk_outcome' = "none"
        /\ sdk_response' = <<>>
        /\ attempts' = <<>>
        /\ successful' = 0
        /\ failed' = 0
        /\ IF early
           THEN /\ console' = IF Kind(dir) # "dir" THEN "Directory not found"
                                                   ELSE "No files found to upload"
                /\ files_to_upload' = <<>>
                /\ result' = [method |-> "upload_directory", value |-> <<0, 0>>,
                              raised |-> "none"]
                /\ wpc' = "idle"
           ELSE /\ console' = "Found file(s) to upload"
                /\ files_to_upload' = files
                /\ result' = Pending
                /\ wpc' = "loop"
        /\ UNCHANGED <<tree, sep, transfer_config>>

\* One iteration of the for loop; the last one also prints the summary and returns.
upload_directory_step(o) ==
    LET i     == Len(attempts) + 1
        f     == files_to_upload[i]
        rel   == RelativeTo(f.path, call.path)
        key   == S3Key(call.prefix, rel, sep)
        r     == UploadFileRun(f.path, Some(key), o)
        t     == Tally(successful, failed, r.value)
    IN  /\ wpc = "loop"
        /\ i <= Len(files_to_upload)
        /\ sdk_calls' = sdk_calls \o r.calls
        /\ sdk_outcome' = r.outcome
        /\ attempts' = Append(attempts, [path |-> f.path, key |-> key, ok |-> r.value])
        /\ IF r.raised # "none"
           THEN /\ UNCHANGED <<successful, failed>>
                /\ console' = r.msg
                /\ result' = [method |-> "upload_directory", value |-> <<0, 0>>,
                              raised |-> r.raised]
                /\ wpc' = "idle"
           ELSE /\ successful' = t[1]
                /\ failed' = t[2]
                /\ IF i = Len(files_to_upload)
                   THEN /\ console' = "Upload Summary"
                        /\ result' = [method |-> "upload_directory", value |-> t,
                                      raised |-> "none"]
                        /\ wpc' = "idle"
                   ELSE /\ console' = r.msg
                        /\ result' = Pending
                        /\ wpc' = "loop"
        /\ UNCHANGED <<tree, sep, transfer_config, call, files_to_upload, sdk_response>>

----------------------------------------------------------------------------
(* S3FileUploader.list_bucket_contents and get_upload_url *)

Min(a, b) == IF a < b THEN a ELSE b

\* What list_objects_v2 answers with n objects: its "Contents" (absent when 0)
ListResponse(o, n) == IF o = "ok" THEN SubSeq(BucketObjects, 1, n) ELSE <<>>

\* return [] without "Contents", return response["Contents"], except ClientError
ListReturn(o, n) ==
    IF o = "ok" THEN [value |-> ListResponse(o, n), raised |-> "none"]
    ELSE IF IsClientError(o) THEN [value |-> <<>>, raised |-> "none"]
    ELSE [value |-> <<>>, raised |-> o]

ListMessage(o, n) ==
    IF o = "ok" THEN (IF n = 0 THEN "Bucket is empty" ELSE "Found object(s) in bucket")
    ELSE IF IsClientError(o) THEN "Error listing bucket"
    ELSE "none"

list_bucket_contents(prefix, max_items, o, n) ==
    /\ wpc = "idle"
    /\ call' = [NoArgs("list_bucket_contents") EXCEPT !.prefix = prefix,
                    !.max_items = max_items]
    /\ sdk_calls' = << SdkCall("list_objects_v2", <<>>, prefix) >>
    /\ sdk_outcome' = o
    /\ sdk_response' = ListResponse(o, n)
    /\ console' = ListMessage(o, n)
    /\ result' = [method |-> "list_bucket_contents"] @@ ListReturn(o, n)
    /\ UNCHANGED <<tree, sep, transfer_config, wpc, files_to_upload, attempts, successful, failed>>

UrlReturn(key, o) ==
    IF o = "ok" THEN [value |-> Some(<<"u", ":">> \o key), raised |-> "none"]
    ELSE IF IsClientError(o) THEN [value |-> None, raised |-> "none"]
    ELSE [value |-> None, raised |-> o]

get_upload_url(key, o) ==
    /\ wpc = "idle"
    /\ call' = [NoArgs("get_upload_url") EXCEPT !.key = Some(key)]
    /\ sdk_calls' = << SdkCall("generate_presigned_url", <<>>, key) >>
    /\ sdk_outcome' = o
    /\ sdk_response' = <<>>
    /\ console' = IF IsClientError(o) THEN "Error generating presigned URL" ELSE "none"
    /\ result' = [method |-> "get_upload_url"] @@ UrlReturn(key, o)
    /\ UNCHANGED <<tree, sep, transfer_config, wpc, files_to_upload, attempts, successful, failed>>

----------------------------------------------------------------------------
(* The wrapper used as a library: any client, any arguments *)

Paths == { tree[i].path : i \in 1..Len(tree) } \cup { <<NameZ>> }

Dirs == { <<>>, <<NameS>>, <<NameZ>> } \cup { tree[i].path : i \in 1..1 }

\* TransferConfig(multipart_threshold=1024 * 25, max_concurrency=10,
\*                multipart_chunksize=1024 * 25, use_threads=True)
TransferConfig ==
    [multipart_threshold |-> 1024 * 25,
     max_concurrency     |-> 10,
     multipart_chunksize |-> 1024 * 25,
     use_threads         |-> TRUE]

PickerIdle == [state |-> "idle", path |-> None, custom |-> None]

WrapperInit ==
    /\ \E w \in Worlds : tree = w[1] /\ sep = w[2]
    /\ transfer_config = TransferConfig
    /\ wpc = "idle"
    /\ call = NoArgs("none")
    /\ result = [method |-> "none", value |-> FALSE, raised |-> "none"]
    /\ sdk_calls = <<>>
    /\ sdk_outcome = "none"
    /\ sdk_response = <<>>
    /\ console = "none"
    /\ files_to_upload = <<>>
    /\ attempts = <<>>
    /\ successful = 0
    /\ failed = 0

Init ==
    /\ WrapperInit
    /\ mpc = "Library"
    /\ exit_status = -1
    /\ exit_reason = "none"
    /\ menu_shown = FALSE
    /\ connected = FALSE
    /\ action = "none"
    /\ answer = "none"
    /\ picker = PickerIdle

FreshRecords ==
    /\ call' = NoArgs("none")
    /\ result' = [method |-> "none", value |-> FALSE, raised |-> "none"]
    /\ sdk_calls' = <<>>
    /\ sdk_outcome' = "none"
    /\ sdk_response' = <<>>
    /\ console' = "none"
    /\ files_to_upload' = <<>>
    /\ attempts' = <<>>
    /\ successful' = 0
    /\ failed' = 0
    /\ UNCHANGED <<tree, sep, transfer_config, wpc>>

CallBucketExists ==
    /\ mpc = "Library"
    /\ wpc = "idle"
    /\ \E o \in SdkOutcomes : bucket_exists(o)
    /\ mpc' = IF wpc' = "idle" THEN "Returned" ELSE "Library"
    /\ UNCHANGED <<exit_status, exit_reason, menu_shown, connected, action, answer, picker>>

CallUploadFile ==
    /\ mpc = "Library"
    /\ wpc = "idle"
    /\ \E path \in Paths, k \in {None} \cup {Some(x) : x \in Keys}, o \in UploadOutcomes :
           upload_file(path, k, o)
    /\ mpc' = IF wpc' = "idle" THEN "Returned" ELSE "Library"
    /\ UNCHANGED <<exit_status, exit_reason, menu_shown, connected, action, answer, picker>>

CallUploadDirectory ==
    /\ mpc = "Library"
    /\ wpc = "idle"
    /\ \E dir \in Dirs, prefix \in Prefixes,
          inc \in SeqsUpTo(Patterns, MaxInclude), exc \in SeqsUpTo(Patterns, MaxExclude) :
           upload_directory(dir, prefix, inc, exc)
    /\ mpc' = IF wpc' = "idle" THEN "Returned" ELSE "Library"
    /\ UNCHANGED <<exit_status, exit_reason, menu_shown, connected, action, answer, picker>>

UploadDirectoryStep ==
    /\ mpc = "Library"
    /\ wpc = "loop"
    /\ \E o \in UploadOutcomes : upload_directory_step(o)
    /\ mpc' = IF wpc' = "idle" THEN "Returned" ELSE "Library"
    /\ UNCHANGED <<exit_status, exit_reason, menu_shown, connected, action, answer, picker>>

CallListBucketContents ==
    /\ mpc = "Library"
    /\ wpc = "idle"
    /\ \E prefix \in {<<>>, <<"m">>}, max_items \in 1..MaxItems, o \in SdkOutcomes :
         \E n \in 0..Min(max_items, Len(BucketObjects)) :
           list_bucket_contents(prefix, max_items, o, n)
    /\ mpc' = IF wpc' = "idle" THEN "Returned" ELSE "Library"
    /\ UNCHANGED <<exit_status, exit_reason, menu_shown, connected, action, answer, picker>>

CallGetUploadUrl ==
    /\ mpc = "Library"
    /\ wpc = "idle"
    /\ \E key \in Keys, o \in SdkOutcomes : get_upload_url(key, o)
    /\ mpc' = IF wpc' = "idle" THEN "Returned" ELSE "Library"
    /\ UNCHANGED <<exit_status, exit_reason, menu_shown, connected, action, answer, picker>>

\* The client takes the returned value; the wrapper keeps nothing between
\* invocations, so the next one starts from fresh per-invocation records.
ClientReturn ==
    /\ mpc = "Returned"
    /\ mpc' = "Library"
    /\ FreshRecords
    /\ UNCHANGED <<exit_status, exit_reason, menu_shown, connected, action, answer, picker>>

Next ==
    \/ CallBucketExists
    \/ CallUploadFile
    \/ CallUploadDirectory
    \/ UploadDirectoryStep
    \/ CallListBucketContents
    \/ CallGetUploadUrl
    \/ ClientReturn

Spec == Init /\ [][Next]_vars

----------------------------------------------------------------------------
(* The orchestrator: main.py *)

EntryPointStatusNoHandler(how) ==
    CASE how = "return"            -> 0
      [] how = "SystemExit1"       -> 1
      [] how = "KeyboardInterrupt" -> 130
      [] OTHER                     -> 1

\* How main() ends decides the status: it returns, sys.exit(1) passes through
\* both handlers, KeyboardInterrupt -> sys.exit(0), Exception -> sys.exit(1).
EntryPointStatus(how) ==
    CASE how = "return"            -> 0
      [] how = "SystemExit1"       -> 1
      [] how = "KeyboardInterrupt" -> 0
      [] OTHER                     -> 1

Exit(how, reason) ==
    /\ mpc' = "Exited"
    /\ exit_status' = EntryPointStatus(how)
    /\ exit_reason' = reason

\* bucket_name = os.getenv(...) or, when that is empty, the prompt's answer
ResolveBucket(env, typed) == IF env # "" THEN env ELSE typed

BucketNames == {"", "my-bucket"}

MainInit ==
    /\ WrapperInit
    /\ mpc = "Configuring"
    /\ exit_status = -1
    /\ exit_reason = "none"
    /\ menu_shown = FALSE
    /\ connected = FALSE
    /\ action = "none"
    /\ answer = "none"
    /\ picker = PickerIdle

\* get_aws_config
Configure ==
    /\ mpc = "Configuring"
    /\ \E env \in BucketNames, typed \in BucketNames :
          IF ResolveBucket(env, typed) = ""
          THEN Exit("SystemExit1", "bucket name unresolved")
          ELSE mpc' = "Connecting" /\ UNCHANGED <<exit_status, exit_reason>>
    /\ UNCHANGED <<menu_shown, connected, action, answer, picker>>
    /\ UNCHANGED wvars

ConnectVerifiedSkipped(r) == TRUE

\* if not uploader.bucket_exists(): ... sys.exit(1)
ConnectVerified(r) == r.value

\* create_uploader, and the first show_menu when it returns
Connect ==
    /\ mpc = "Connecting"
    /\ \E o \in SdkOutcomes :
          LET r == BucketExistsReturn(o)
          IN  /\ bucket_exists(o)
              /\ connected' = (r.raised = "none" /\ r.value)
              /\ IF r.raised # "none"
                 THEN Exit("Exception", "unhandled error") /\ UNCHANGED menu_shown
                 ELSE IF ConnectVerified(r)
                      THEN /\ mpc' = "Menu"
                           /\ menu_shown' = TRUE
                           /\ UNCHANGED <<exit_status, exit_reason>>
                      ELSE Exit("SystemExit1", "connection failed") /\ UNCHANGED menu_shown
    /\ UNCHANGED <<action, answer, picker>>

\* action == "exit"
MenuExit ==
    /\ mpc = "Menu"
    /\ answer' = "none"
    /\ action' = "exit"
    /\ Exit("return", "exit chosen")
    /\ UNCHANGED <<menu_shown, connected, picker>>
    /\ UNCHANGED wvars

DefaultMaxItems == 100

\* action == "list": list_bucket_contents(uploader), then the Enter prompt
MenuList ==
    /\ mpc = "Menu"
    /\ answer' = "none"
    /\ action' = "list"
    /\ \E prefix \in {<<>>, <<"m">>}, o \in SdkOutcomes :
         \E n \in 0..Min(DefaultMaxItems, Len(BucketObjects)) :
          /\ list_bucket_contents(prefix, DefaultMaxItems, o, n)
          /\ IF ListReturn(o, n).raised # "none"
             THEN Exit("Exception", "unhandled error")
             ELSE mpc' = "PressEnter" /\ UNCHANGED <<exit_status, exit_reason>>
    /\ UNCHANGED <<menu_shown, connected, picker>>

\* input("  Press Enter to continue..."), console.clear(), back to the menu
PressEnter ==
    /\ mpc = "PressEnter"
    /\ mpc' = "Menu"
    /\ FreshRecords
    /\ UNCHANGED <<exit_status, exit_reason, menu_shown, connected, action, answer, picker>>

MediaKeyBare(name) == name

\* f"media/{file_path.name}"
MediaKey(name) == <<"m", "e", "d", "i", "a", "/">> \o name

FilePaths == { tree[i].path : i \in { n \in 1..Len(tree) : tree[n].kind = "file" } }

\* BasicFileOpenApp.on_mount: the dialog's result, when there is one, is the
\* application's return value; a cancelled dialog gives None
PickerRun(opened) == IF opened # None THEN opened ELSE None

\* s3_key: the key typed at the "S3 Key" prompt, else media/<file name>
SingleFileKey(path, custom) ==
    IF custom # None THEN Head(custom) ELSE MediaKey(Last(path))

\* upload_single_file when the picker is cancelled (or fails: the except
\* clause prints the error); no wrapper call is made
MenuUploadFileCancelled ==
    /\ mpc = "Menu"
    /\ answer' = "none"
    /\ action' = "upload"
    /\ \E ended \in {"cancelled", "failed"} :
          picker' = [state |-> ended,
                     path |-> IF ended = "cancelled" THEN PickerRun(None) ELSE None,
                     custom |-> None]
    /\ mpc' = "AskContinue"
    /\ UNCHANGED <<exit_status, exit_reason, menu_shown, connected>>
    /\ UNCHANGED wvars

\* upload_single_file when the picker returns a path
MenuUploadFile ==
    /\ mpc = "Menu"
    /\ answer' = "none"
    /\ action' = "upload"
    /\ \E path \in FilePaths, o \in UploadOutcomes :
         \E custom \in {None} \cup { Some(k) : k \in Keys } :
            LET file_path == PickerRun(Some(path))
            IN  /\ file_path # None
                /\ picker' = [state |-> "confirmed", path |-> file_path,
                              custom |-> custom]
                /\ upload_file(Head(file_path),
                               Some(SingleFileKey(Head(file_path), custom)), o)
    /\ mpc' = "AskContinue"
    /\ UNCHANGED <<exit_status, exit_reason, menu_shown, connected>>

\* upload_directory(uploader) of main.py up to the wrapper's first iteration
MenuUploadDirectory ==
    /\ mpc = "Menu"
    /\ answer' = "none"
    /\ action' = "upload"
    /\ \E dir \in Dirs :
          IF Kind(dir) # "dir"
          THEN mpc' = "AskContinue" /\ UNCHANGED wvars
          ELSE \E prefix \in Prefixes, inc \in SeqsUpTo(Patterns, MaxInclude),
                  exc \in SeqsUpTo(Patterns, MaxExclude) :
                 /\ upload_directory(dir, prefix, inc, exc)
                 /\ mpc' = IF wpc' = "idle" THEN "AskContinue" ELSE "Uploading"
    /\ UNCHANGED <<exit_status, exit_reason, menu_shown, connected, picker>>

\* one iteration of the wrapper's loop on behalf of main.py
MainUploadDirectoryStep ==
    /\ mpc = "Uploading"
    /\ \E o \in UploadOutcomes :
          /\ upload_directory_step(o)
          /\ IF UploadFileReturn(o).raised # "none"
             THEN Exit("Exception", "unhandled error")
             ELSE /\ mpc' = IF wpc' = "idle" THEN "AskContinue" ELSE "Uploading"
                  /\ UNCHANGED <<exit_status, exit_reason>>
    /\ UNCHANGED <<menu_shown, connected, action, answer, picker>>

ContinueTargetAlways(yes) == "Menu"

\* if not Confirm.ask("  Perform another operation?"): break
ContinueTarget(yes) == IF yes THEN "Menu" ELSE "Exited"

AskContinue ==
    /\ mpc = "AskContinue"
    /\ \E yes \in BOOLEAN :
          /\ answer' = IF yes THEN "yes" ELSE "no"
          /\ IF ContinueTarget(yes) = "Menu"
             THEN /\ mpc' = "Menu"
                  /\ FreshRecords
                  /\ picker' = PickerIdle
                  /\ UNCHANGED <<exit_status, exit_reason>>
             ELSE /\ Exit("return", "declined to continue")
                  /\ UNCHANGED <<wvars, picker>>
    /\ UNCHANGED <<menu_shown, connected, action>>

\* Ctrl-C at any prompt or during any call: KeyboardInterrupt leaves main()
Interrupt ==
    /\ mpc \in {"Configuring", "Connecting", "Menu", "PressEnter", "Uploading", "AskContinue"}
    /\ Exit("KeyboardInterrupt", "interrupt")
    /\ UNCHANGED <<menu_shown, connected, action, answer, picker>>
    /\ UNCHANGED wvars

MainNext ==
    \/ Configure
    \/ Connect
    \/ MenuExit
    \/ MenuList
    \/ PressEnter
    \/ MenuUploadFileCancelled
    \/ MenuUploadFile
    \/ MenuUploadDirectory
    \/ MainUploadDirectoryStep
    \/ AskContinue
    \/ Interrupt

SpecMain == MainInit /\ [][MainNext]_vars

----------------------------------------------------------------------------
(* Properties of the wrapper, checked under Spec *)

Returned(m) == result.method = m

\* C1: for a path that is a regular file, upload_file returns True exactly
\* when the SDK upload call returned without raising; when that call raises
\* (credentials, service error, any other Exception) it returns False and
\* raises nothing.
C1_UploadFileReportsSdkOutcome ==
    (Returned("upload_file") /\ Kind(call.path) = "file") =>
        /\ Len(sdk_calls) = 1
        /\ sdk_calls[1].api = "upload_file"
        /\ result.raised = "none"
        /\ result.value = (sdk_outcome = "ok")

C1_Witness ==
    /\ Returned("upload_file")
    /\ Kind(call.path) = "file"
    /\ sdk_outcome = "Exception"
    /\ result.value = FALSE

\* C2: for a missing path and for a directory, upload_file returns False and
\* makes no SDK call.
C2_InvalidPathNoNetwork ==
    (Returned("upload_file") /\ Kind(call.path) \in {"missing", "dir"}) =>
        /\ result.value = FALSE
        /\ result.raised = "none"
        /\ sdk_calls = <<>>
        /\ sdk_outcome = "none"

C2_Witness ==
    /\ Returned("upload_file")
    /\ Kind(call.path) = "dir"
    /\ sdk_calls = <<>>
    /\ console = "Path is not a file"

\* The regular files below dir whose name matches at least one of the patterns
MatchingFiles(dir, pats) ==
    { e \in Range(tree) : /\ e.kind = "file"
                          /\ Under(dir, e.path)
                          /\ \E i \in 1..Len(pats) : Match(pats[i], Last(e.path)) }

AllFiles(dir) == { e \in Range(tree) : e.kind = "file" /\ Under(dir, e.path) }

Included(dir, inc) == IF inc = <<>> THEN AllFiles(dir) ELSE MatchingFiles(dir, inc)

Remaining(dir, inc, exc) == Included(dir, inc) \ MatchingFiles(dir, exc)

DirectoryDone ==
    /\ Returned("upload_directory")
    /\ Kind(call.path) = "dir"

\* C3: with N distinct regular files matching some include pattern (all files
\* when there is none) and M of them matching some exclude pattern,
\* upload_directory makes exactly N - M calls of upload_file, one per
\* remaining file.
C3_ExactlyNMinusMUploads ==
    DirectoryDone =>
        LET rem == Remaining(call.path, call.include, call.exclude)
        IN  /\ Len(attempts) = Cardinality(rem)
            /\ \A e \in rem :
                   Cardinality({ i \in 1..Len(attempts) : attempts[i].path = e.path }) = 1

\* C4: a failed upload never aborts the batch: the files of the filtered list
\* are attempted once each, in list order, whatever the earlier outcomes, and
\* the returned (successful, failed) add up to the number of attempts, with
\* successful the number of attempts that returned True.
C4_BatchIsolatesFailures ==
    /\ Len(attempts) <= Len(files_to_upload)
    /\ \A i \in 1..Len(attempts) : attempts[i].path = files_to_upload[i].path
    /\ wpc = "loop" => successful + failed = Len(attempts)
    /\ (DirectoryDone /\ files_to_upload # <<>>) =>
          /\ result.raised = "none"
          /\ Len(attempts) = Len(files_to_upload)
          /\ result.value[1] + result.value[2] = Len(attempts)
          /\ result.value[1] = Cardinality({ i \in 1..Len(attempts) : attempts[i].ok })

C4_Witness ==
    /\ DirectoryDone
    /\ Len(attempts) >= 3
    /\ ~attempts[1].ok
    /\ attempts[2].ok
    /\ result.value[2] >= 2

PublicMethods == {"bucket_exists", "upload_file", "upload_directory",
                  "list_bucket_contents", "get_upload_url"}

\* C5: no exception escapes a public method when the SDK call fails with
\* missing credentials, a service error or an unexpected error.
C5_NoExceptionEscapes ==
    (result.method \in PublicMethods /\ sdk_outcome \notin {"ok", "none"}) =>
        result.raised = "none"

\* C6: bucket_exists returns True exactly when head_bucket succeeds, and
\* False with a 'does not exist' message on code 404, an 'Access denied'
\* message on code 403 and a 'credentials not found' message without
\* credentials.
C6_BucketExistsOutcomes ==
    Returned("bucket_exists") =>
        /\ (result.raised = "none" /\ result.value) <=> (sdk_outcome = "ok")
        /\ sdk_outcome = "ok" => console = "none"
        /\ sdk_outcome = "ClientError404" =>
              ~result.value /\ result.raised = "none" /\ console = "does not exist"
        /\ sdk_outcome = "ClientError403" =>
              ~result.value /\ result.raised = "none" /\ console = "Access denied"
        /\ sdk_outcome = "NoCredentialsError" =>
              ~result.value /\ result.raised = "none"
                            /\ console = "AWS credentials not found"

C6_Witness ==
    /\ Returned("bucket_exists")
    /\ sdk_outcome = "ClientError403"
    /\ console = "Access denied"
    /\ ~result.value

\* prefix + "/" + relative path, as the platform writes the relative path
Joined(a) == call.prefix \o <<"/">> \o Join(RelativeTo(a.path, call.path), sep)

\* C7: the destination key is a function of (prefix, relative path): it is
\* the prefix joined with the relative path by "/" (leading slashes dropped),
\* with every backslash replaced by a forward slash.
C7_KeyConstruction ==
    call.method = "upload_directory" =>
      /\ \A i \in 1..Len(attempts) :
            LET a == attempts[i]
                j == Joined(a)
            IN  /\ "\\" \notin Range(a.key)
                /\ \E k \in 0..Len(j) :
                      /\ \A n \in 1..k : j[n] = "/"
                      /\ k < Len(j) => j[k + 1] # "/"
                      /\ Len(a.key) = Len(j) - k
                      /\ \A n \in 1..Len(a.key) :
                            a.key[n] = IF j[k + n] = "\\" THEN "/" ELSE j[k + n]
      /\ \A i, n \in 1..Len(attempts) :
            attempts[i].path = attempts[n].path => attempts[i].key = attempts[n].key

C7_Witness ==
    /\ call.method = "upload_directory"
    /\ Len(attempts) >= 2
    /\ sep = "\\"
    /\ Len(attempts[1].path) = 2
    /\ "\\" \in Range(call.prefix)
    /\ "\\" \notin Range(attempts[1].key)

----------------------------------------------------------------------------
(* Properties of the orchestrator, checked under SpecMain *)

InLoop == {"Menu", "PressEnter", "Uploading", "AskContinue"}

BackToMenu == mpc # "Menu" /\ mpc' = "Menu" /\ mpc # "Connecting"

\* C8 as stated: after every completed action other than exit, upload and
\* list alike, the user is asked whether to continue, and the loop returns
\* to the menu only after a positive answer.
C8_ContinueAskedAfterEveryAction ==
    [][(BackToMenu /\ action \in {"upload", "list"}) =>
          (mpc = "AskContinue" /\ answer' = "yes")]_vars

\* C8 as amended: after every completed upload action the user is asked
\* whether to continue, a negative answer ends the loop and only a positive
\* one returns to the menu; after a list action the user is only asked to
\* press Enter and the loop returns to the menu.
C8_ContinueAskedAfterUpload ==
    [][/\ (BackToMenu /\ action = "upload") =>
             (mpc = "AskContinue" /\ answer' = "yes")
       /\ (BackToMenu /\ action = "list") => mpc = "PressEnter"
       /\ (mpc = "Menu" /\ action' = "upload" /\ mpc' # "Exited") =>
             mpc' \in {"AskContinue", "Uploading"}
       /\ (mpc = "Uploading" /\ mpc' \notin {"Uploading", "Exited"}) => mpc' = "AskContinue"
       /\ (mpc = "AskContinue" /\ answer' = "no") =>
             (mpc' = "Exited" /\ exit_status' = 0)
       /\ (mpc = "Menu" /\ action' = "list" /\ mpc' # "Exited") => mpc' = "PressEnter"
      ]_vars

C8_Witness ==
    /\ mpc = "Menu"
    /\ action = "upload"
    /\ answer = "yes"

\* C9: Configuring, then Connecting, then the menu loop: no upload or list
\* call on the wrapper before bucket_exists has returned True, and when
\* bucket_exists returns False the process exits non-zero without the menu
\* ever being shown.
C9_ConnectBeforeMenu ==
    /\ mpc \in {"Configuring", "Connecting"} => (call.method = "none" /\ ~menu_shown)
    /\ menu_shown => connected
    /\ mpc \in InLoop => (connected /\ menu_shown)
    /\ call.method \in {"upload_file", "upload_directory", "list_bucket_contents"}
          => connected
    /\ (result.method = "bucket_exists" /\ result.raised = "none" /\ ~result.value) =>
          /\ mpc = "Exited"
          /\ exit_status > 0
          /\ ~menu_shown

C9_Witness ==
    /\ result.method = "bucket_exists"
    /\ result.raised = "none"
    /\ ~result.value
    /\ mpc = "Exited"
    /\ exit_status = 1
    /\ ~menu_shown

\* C10: the exit status is 0 when the loop ends gracefully (exit chosen, or
\* a negative answer) and on a user interrupt, 1 when the bucket name
\* cannot be resolved, when the connection check fails and when an error
\* reaches the entry point; there is no other status.
C10_ExitStatus ==
    /\ mpc # "Exited" => (exit_status = -1 /\ exit_reason = "none")
    /\ mpc = "Exited" =>
          /\ exit_status \in {0, 1}
          /\ exit_reason \in {"exit chosen", "declined to continue", "interrupt"}
                => exit_status = 0
          /\ exit_reason \in {"bucket name unresolved", "connection failed",
                               "unhandled error"}
                => exit_status = 1
          /\ exit_reason = "unhandled error" => result.raised # "none"
          /\ exit_reason = "exit chosen" => action = "exit"
          /\ exit_reason = "declined to continue" => answer = "no"
          /\ exit_reason = "bucket name unresolved" => call.method = "none"

C10_Witness ==
    /\ mpc = "Exited"
    /\ exit_reason = "interrupt"
    /\ exit_status = 0
    /\ wpc = "loop"

----------------------------------------------------------------------------
(* Listing, checked under Spec *)

\* C11: list_bucket_contents returns at most max_items descriptors, exactly
\* the SDK's listed objects when the listing succeeds with contents, and an
\* empty list when the bucket is empty and when the listing call fails with
\* any error.
C11_ListPassThrough ==
    Returned("list_bucket_contents") =>
        /\ result.raised = "none"
        /\ Len(result.value) <= call.max_items
        /\ sdk_outcome = "ok" => result.value = sdk_response
        /\ sdk_outcome # "ok" => result.value = <<>>

----------------------------------------------------------------------------
(* Transfer configuration, checked under Spec *)

MB == 1024 * 1024

\* C12: every wrapper instance configures the managed transfer with a
\* multipart threshold of 25 MB, a part size of 25 MB and a maximum
\* concurrency of 10 workers, and never changes these values.
C12_TransferConfig25MB ==
    /\ transfer_config.multipart_threshold = 25 * MB
    /\ transfer_config.multipart_chunksize = 25 * MB
    /\ transfer_config.max_concurrency = 10

----------------------------------------------------------------------------
(* Single-file upload flow, checked under SpecMain *)

\* the key the claim expects for the picked file
ExpectedKey ==
    IF picker.custom = None
    THEN <<"m", "e", "d", "i", "a", "/">> \o Last(Head(picker.path))
    ELSE Head(picker.custom)

\* C13: when the picker session ends by cancellation it returns an absent
\* value and no upload_file call is made for that action; when it ends by
\* confirmation it returns the selected path and upload_file is called
\* exactly once, with that path and the key "media/" + base name unless the
\* user supplied a custom key.
C13_PickerDecidesUpload ==
    /\ picker.state = "cancelled" =>
          /\ picker.path = None
          /\ call.method # "upload_file"
          /\ \A i \in 1..Len(sdk_calls) : sdk_calls[i].api # "upload_file"
    /\ picker.state = "confirmed" =>
          /\ picker.path # None
          /\ Head(picker.path) \in FilePaths
          /\ call.method = "upload_file"
          /\ call.path = Head(picker.path)
          /\ call.key = Some(ExpectedKey)
          /\ sdk_calls = << SdkCall("upload_file", Head(picker.path), ExpectedKey) >>

C13_Witness ==
    /\ picker.state = "confirmed"
    /\ picker.custom = None
    /\ call.method = "upload_file"
    /\ Len(Head(picker.path)) = 2
    /\ result.value = TRUE

====
